---- MODULE Spec2Model ----
(***************************************************************************)
(* Simple Sokoban: the level parser, the move/undo engine, the solved      *)
(* check with its best-solution ranking, and the run-length codec of the   *)
(* persisted move histories (src/sok_core.c, src/save.c).                  *)
(*                                                                         *)
(* Characters are one-character strings, C strings are sequences of them.  *)
(* A pointer that may be NULL is a record [null, str]; a file that may not *)
(* exist is a record [exists, bytes].                                      *)
(***************************************************************************)
EXTENDS Integers, Sequences, FiniteSets, TLC

VARIABLES
  curlevel,   \* index of the level being played (gameslist[curlevel])
  game,       \* struct sokgame: the working copy of the level
  states,     \* struct sokgamestates: history and angle
  solfile,    \* the persisted solution file of the level (<crc64>.sol / .sav)
  op,         \* the last call made and what it returned
  xsblevelptr,  \* the level file in memory, as handed to the parser
  levelset,   \* maxlevels, levelscount and the list sok_loadfile filled
  scan        \* loadlevelfromfile under way: its locals and the game it fills

vars == <<curlevel, game, states, solfile, op, xsblevelptr, levelset, scan>>

\* no call of loadlevelfromfile is under way
NoScan == [none |-> TRUE]

(***************************************************************************)
(* Bounds of the model.                                                    *)
(***************************************************************************)
MaxHist == 4        \* longest history played in Spec
MaxRuns == 2        \* runs of one character appended to a history in CodecSpec
MaxFileLen == 2     \* bytes of a solution file in CodecSpec
MaxBlocks == 2      \* level blocks ahead of the last one of a file in LoaderSpec

(***************************************************************************)
(* sok_core.h: cell flags, grid size, move results.                        *)
(***************************************************************************)
field_floor == 1
field_atom == 2
field_goal == 4
field_wall == 8
FieldDim == 64

sokmoveNONE == 0
sokmoveUP == 1
sokmoveLEFT == 2
sokmoveDOWN == 3
sokmoveRIGHT == 4

sokmove_pushed == 1
sokmove_ongoal == 2
sokmove_solved == 4

\* v & flag != 0, v | flag and v & ~flag for a one-bit flag
HasFlag(v, flag) == (v \div flag) % 2 = 1
SetFlag(v, flag) == IF HasFlag(v, flag) THEN v ELSE v + flag
ClearFlag(v, flag) == IF HasFlag(v, flag) THEN v - flag ELSE v

InGrid(x, y) == x >= 0 /\ x < FieldDim /\ y >= 0 /\ y < FieldDim

\* F applied to the value of v, v being evaluated once, before F, as a C call
\* evaluates its argument
Eval(F(_), v) == CHOOSE r \in {F(x) : x \in {v}} : TRUE

NULL == [null |-> TRUE, str |-> <<>>]
Ptr(s) == [null |-> FALSE, str |-> s]
NoFile == [exists |-> FALSE, bytes |-> <<>>]
File(b) == [exists |-> TRUE, bytes |-> b]

(***************************************************************************)
(* save.c: the history codec.                                              *)
(***************************************************************************)
solmove_ERR == 8

\* the case of a move is lost: a push is coded as a walk
xsb2byte_NoCase(c) ==
  CASE c \in {"u", "U"} -> 0
    [] c \in {"l", "L"} -> 1
    [] c \in {"d", "D"} -> 2
    [] c \in {"r", "R"} -> 3
    [] OTHER -> solmove_ERR

xsb2byte(c) ==
  CASE c = "u" -> 0
    [] c = "l" -> 1
    [] c = "d" -> 2
    [] c = "r" -> 3
    [] c = "U" -> 4
    [] c = "L" -> 5
    [] c = "D" -> 6
    [] c = "R" -> 7
    [] OTHER -> solmove_ERR

byte2xsb(b) ==
  CASE b = 0 -> "u"
    [] b = 1 -> "l"
    [] b = 2 -> "d"
    [] b = 3 -> "r"
    [] b = 4 -> "U"
    [] b = 5 -> "L"
    [] b = 6 -> "D"
    [] b = 7 -> "R"
    [] OTHER -> "!"

\* the character a C string holds at 1-based index i; its terminator past the end
CharAt(s, i) == IF i <= Len(s) THEN s[i] ELSE "NUL"

\* a run is cut only by a differing character, never at 15
SaveStep_NoCap(s, c) ==
  LET curbyte == xsb2byte(c)
      same == curbyte = s.lastbyte
  IN [i |-> s.i + 1,
      lastbyte |-> IF same THEN s.lastbyte ELSE curbyte,
      lastbytecount |-> IF same THEN s.lastbytecount + 1 ELSE 1,
      out |-> IF ~same /\ s.lastbytecount > 0
              THEN Append(s.out, (s.lastbytecount * 16 + s.lastbyte) % 256)
              ELSE s.out,
      done |-> curbyte = solmove_ERR]

\* one round of the for(;;) loop of solution_save on the character c, s holding
\* lastbyte, lastbytecount and the bytes written so far; done is the break on
\* a character that is no move (the terminator, if none comes before)
SaveStep(s, c) ==
  LET curbyte == xsb2byte(c)
      same == curbyte = s.lastbyte /\ s.lastbytecount < 15
  IN [i |-> s.i + 1,
      lastbyte |-> IF same THEN s.lastbyte ELSE curbyte,
      lastbytecount |-> IF same THEN s.lastbytecount + 1 ELSE 1,
      out |-> IF ~same /\ s.lastbytecount > 0
              THEN Append(s.out, (s.lastbytecount * 16 + s.lastbyte) % 256)
              ELSE s.out,
      done |-> curbyte = solmove_ERR]

\* up to n rounds of the for(;;) loop of solution_save, none after the break
RECURSIVE SaveLoop(_, _, _)
SaveLoop(solution, s, n) ==
  IF n = 0 \/ s.done THEN s
  ELSE IF n = 1 THEN SaveStep(s, CharAt(solution, s.i))
  ELSE Eval(LAMBDA h : SaveLoop(solution, h, n - (n \div 2)),
            SaveLoop(solution, s, n \div 2))

\* the bytes solution_save writes for a non-NULL solution string: the loop
\* breaks at the terminator at the latest
solution_save(solution) ==
  SaveLoop(solution,
           [i |-> 1, lastbyte |-> -1, lastbytecount |-> 0, out |-> <<>>, done |-> FALSE],
           Len(solution) + 1).out

\* one round of the while (rlecounter > 0) loop of solution_load
LoadStep(s) ==
  IF byte2xsb(s.bytebuff) = "!"
  THEN [s EXCEPT !.solution = NULL]
  ELSE [s EXCEPT !.solution = Ptr(Append(@.str, byte2xsb(s.bytebuff))),
                 !.rlecounter = @ - 1]

\* the while (rlecounter > 0) loop: it ends with the counter at 0, or with
\* solution NULL once a byte maps to '!'
RECURSIVE LoadRun(_)
LoadRun(s) ==
  IF s.rlecounter > 0 /\ ~s.solution.null THEN Eval(LoadRun, LoadStep(s)) ELSE s

\* one round of the for(;;) loop of solution_load: the next byte of the file
LoadByte(bytes, s) ==
  [LoadRun([s EXCEPT !.rlecounter = bytes[s.i] \div 16,
                     !.bytebuff = bytes[s.i] % 16]) EXCEPT !.i = @ + 1]

\* up to n rounds of the for(;;) loop of solution_load, none after the end of
\* the file or after the solution was dropped
RECURSIVE LoadLoop(_, _, _)
LoadLoop(bytes, s, n) ==
  IF n = 0 \/ s.i > Len(bytes) \/ s.solution.null THEN s
  ELSE IF n = 1 THEN LoadByte(bytes, s)
  ELSE Eval(LAMBDA h : LoadLoop(bytes, h, n - (n \div 2)),
            LoadLoop(bytes, s, n \div 2))

\* the string solution_load returns for a file (NULL when it cannot be opened)
solution_load(file) ==
  IF ~file.exists THEN NULL
  ELSE LoadLoop(file.bytes,
                [i |-> 1, solution |-> Ptr(<<>>), rlecounter |-> 0, bytebuff |-> 0],
                Len(file.bytes)).solution

(***************************************************************************)
(* sok_core.c: history measures.                                           *)
(***************************************************************************)
IsUpper(c) == c \in {"U", "L", "D", "R"}

sok_history_getlen(history) == IF history.null THEN 0 ELSE Len(history.str)

sok_history_getpushes(history) ==
  IF history.null THEN 0
  ELSE Cardinality({i \in 1..Len(history.str) : IsUpper(history.str[i])})

(***************************************************************************)
(* sok_core.c: the solved check and the ranking of a solution.             *)
(***************************************************************************)
\* a goal of the level's box is left without an atom (the scan of lines 455-459)
UnfilledGoal(g) ==
  \E y \in 0..(g.field_height - 1), x \in 0..(g.field_width - 1) :
    HasFlag(g.field[x][y], field_goal) /\ ~HasFlag(g.field[x][y], field_atom)

\* a tie in moves and pushes counts as better
BetterFlag_TieWins(solution, history) ==
  \/ sok_history_getlen(solution) < 1
  \/ sok_history_getlen(solution) > Len(history)
  \/ /\ sok_history_getlen(solution) = Len(history)
     /\ sok_history_getpushes(solution) >= sok_history_getpushes(Ptr(history))

\* betterflag of sok_checksolution
BetterFlag(solution, history) ==
  LET bestscorelen == sok_history_getlen(solution)
      bestscorepushes == sok_history_getpushes(solution)
      myscorelen == sok_history_getlen(Ptr(history))
      myscorepushes == sok_history_getpushes(Ptr(history))
  IN \/ bestscorelen < 1
     \/ bestscorelen > myscorelen
     \/ bestscorelen = myscorelen /\ bestscorepushes > myscorepushes

\* the history is not asked for a push
sok_checksolution_NoPushTest(g, st, statesnull) ==
  IF UnfilledGoal(g) THEN [ret |-> 0, save |-> FALSE]
  ELSE IF statesnull THEN [ret |-> 0, save |-> FALSE]
  ELSE [ret |-> 1, save |-> BetterFlag(g.solution, st.history)]

\* sok_checksolution(game, states): what it returns and whether it calls
\* solution_save; statesnull stands for a call with states == NULL
sok_checksolution(g, st, statesnull) ==
  IF UnfilledGoal(g) THEN [ret |-> 0, save |-> FALSE]
  ELSE IF statesnull THEN [ret |-> 0, save |-> FALSE]
  ELSE IF sok_history_getpushes(Ptr(st.history)) = 0 THEN [ret |-> 0, save |-> FALSE]
  ELSE [ret |-> 1, save |-> BetterFlag(g.solution, st.history)]

(***************************************************************************)
(* sok_core.c: sok_move and sok_undo.                                      *)
(***************************************************************************)
\* the switch on dir of sok_move
VectorX(dir) == CASE dir = sokmoveRIGHT -> 1 [] dir = sokmoveLEFT -> -1 [] OTHER -> 0
VectorY(dir) == CASE dir = sokmoveDOWN -> 1 [] dir = sokmoveLEFT -> 0 [] dir = sokmoveRIGHT -> 0 [] OTHER -> -1
MoveAngle(dir) ==
  CASE dir = sokmoveRIGHT -> 90 [] dir = sokmoveDOWN -> 180 [] dir = sokmoveLEFT -> 270 [] OTHER -> 0
HistoryChar(dir) ==
  CASE dir = sokmoveRIGHT -> "r" [] dir = sokmoveDOWN -> "d" [] dir = sokmoveLEFT -> "l" [] OTHER -> "u"

\* a push leaves the letter as it is
ToUpper_Same(c) == c

\* historychar -= 32
ToUpper(c) == CASE c = "u" -> "U" [] c = "l" -> "L" [] c = "d" -> "D" [] c = "r" -> "R" [] OTHER -> c

\* the bytes a read outside field[64][64] can yield, as far as the wall and
\* atom bits (the only ones sok_move tests) go
StrayBytes == {0, field_atom, field_wall, field_atom + field_wall}

\* game->field[x][y] as sok_move reads it: outside the array the read is
\* undefined and yields the stray byte
ReadField(g, x, y, stray) == IF InGrid(x, y) THEN g.field[x][y] ELSE stray

\* what the read of the target cell can yield: nothing stray inside the array
StrayReads(g, dir) ==
  IF InGrid(g.positionx + VectorX(dir), g.positiony + VectorY(dir)) THEN {0} ELSE StrayBytes

\* the player may leave row 0
MoveRejected_Row0Free(g, dir, alreadysolved, stray) ==
  LET tx == g.positionx + VectorX(dir)
      ty == g.positiony + VectorY(dir)
      target == ReadField(g, tx, ty, stray)
  IN \/ HasFlag(target, field_wall)
     \/ /\ HasFlag(target, field_atom)
        /\ \/ alreadysolved # 0
           \/ ty < 1 \/ ty > 62 \/ tx < 1 \/ tx > 62
           \/ HasFlag(g.field[tx + VectorX(dir)][ty + VectorY(dir)], field_wall)
           \/ HasFlag(g.field[tx + VectorX(dir)][ty + VectorY(dir)], field_atom)

\* walls do not stop the player
MoveRejected_NoWall(g, dir, alreadysolved, stray) ==
  LET tx == g.positionx + VectorX(dir)
      ty == g.positiony + VectorY(dir)
      target == ReadField(g, tx, ty, stray)
  IN \/ g.positiony < 1
     \/ /\ HasFlag(target, field_atom)
        /\ \/ alreadysolved # 0
           \/ ty < 1 \/ ty > 62 \/ tx < 1 \/ tx > 62
           \/ HasFlag(g.field[tx + VectorX(dir)][ty + VectorY(dir)], field_wall)
           \/ HasFlag(g.field[tx + VectorX(dir)][ty + VectorY(dir)], field_atom)

\* the cell beyond the atom is not looked at
MoveRejected_NoBeyondTest(g, dir, alreadysolved, stray) ==
  LET tx == g.positionx + VectorX(dir)
      ty == g.positiony + VectorY(dir)
      target == ReadField(g, tx, ty, stray)
  IN \/ g.positiony < 1
     \/ HasFlag(target, field_wall)
     \/ /\ HasFlag(target, field_atom)
        /\ \/ alreadysolved # 0
           \/ ty < 1 \/ ty > 62 \/ tx < 1 \/ tx > 62

\* the rejection tests of sok_move (lines 522-528)
MoveRejected(g, dir, alreadysolved, stray) ==
  LET x == g.positionx
      y == g.positiony
      tx == x + VectorX(dir)
      ty == y + VectorY(dir)
      target == ReadField(g, tx, ty, stray)
  IN \/ y < 1
     \/ HasFlag(target, field_wall)
     \/ /\ HasFlag(target, field_atom)
        /\ \/ alreadysolved # 0
           \/ ty < 1 \/ ty > 62 \/ tx < 1 \/ tx > 62
           \/ HasFlag(g.field[tx + VectorX(dir)][ty + VectorY(dir)], field_wall)
           \/ HasFlag(g.field[tx + VectorX(dir)][ty + VectorY(dir)], field_atom)

\* a dry run does not report the push
sok_move_DryHidesPush(g, dir, validitycheck, st, stray) ==
  LET alreadysolved == sok_checksolution(g, st, TRUE).ret
      x == g.positionx
      y == g.positiony
      vectorx == VectorX(dir)
      vectory == VectorY(dir)
      st1 == [st EXCEPT !.angle = MoveAngle(dir)]
      target == ReadField(g, x + vectorx, y + vectory, stray)
      push == HasFlag(target, field_atom)
      ongoal == push /\ HasFlag(g.field[x + 2 * vectorx][y + 2 * vectory], field_goal)
      historychar == IF push THEN ToUpper(HistoryChar(dir)) ELSE HistoryChar(dir)
      field1 == IF push
                THEN [g.field EXCEPT
                        ![x + vectorx][y + vectory] = ClearFlag(@, field_atom),
                        ![x + 2 * vectorx][y + 2 * vectory] = SetFlag(@, field_atom)]
                ELSE g.field
      g2 == IF validitycheck = 0
            THEN [g EXCEPT !.field = field1,
                           !.positionx = x + vectorx,
                           !.positiony = y + vectory]
            ELSE g
      st2 == IF validitycheck = 0
             THEN [st1 EXCEPT !.history = Append(st.history, historychar)]
             ELSE st1
      chk == IF alreadysolved = 0 THEN sok_checksolution(g2, st2, FALSE)
             ELSE [ret |-> 0, save |-> FALSE]
      res == (IF push /\ validitycheck = 0 THEN sokmove_pushed ELSE 0)
             + (IF ongoal THEN sokmove_ongoal ELSE 0)
             + (IF chk.ret # 0 THEN sokmove_solved ELSE 0)
  IN IF MoveRejected(g, dir, alreadysolved, stray)
     THEN [res |-> -1, game |-> g, states |-> st1, save |-> FALSE]
     ELSE [res |-> res, game |-> g2, states |-> st2, save |-> chk.save]

\* sok_move(game, dir, validitycheck, states): the value returned, the game and
\* the states it leaves, and whether solution_save was called
sok_move(g, dir, validitycheck, st, stray) ==
  LET alreadysolved == sok_checksolution(g, st, TRUE).ret
      x == g.positionx
      y == g.positiony
      vectorx == VectorX(dir)
      vectory == VectorY(dir)
      st1 == [st EXCEPT !.angle = MoveAngle(dir)]
      target == ReadField(g, x + vectorx, y + vectory, stray)
      push == HasFlag(target, field_atom)
      ongoal == push /\ HasFlag(g.field[x + 2 * vectorx][y + 2 * vectory], field_goal)
      historychar == IF push THEN ToUpper(HistoryChar(dir)) ELSE HistoryChar(dir)
      field1 == IF push
                THEN [g.field EXCEPT
                        ![x + vectorx][y + vectory] = ClearFlag(@, field_atom),
                        ![x + 2 * vectorx][y + 2 * vectory] = SetFlag(@, field_atom)]
                ELSE g.field
      g2 == IF validitycheck = 0
            THEN [g EXCEPT !.field = field1,
                           !.positionx = x + vectorx,
                           !.positiony = y + vectory]
            ELSE g
      st2 == IF validitycheck = 0
             THEN [st1 EXCEPT !.history = Append(st.history, historychar)]
             ELSE st1
      chk == IF alreadysolved = 0 THEN sok_checksolution(g2, st2, FALSE)
             ELSE [ret |-> 0, save |-> FALSE]
      res == (IF push THEN sokmove_pushed ELSE 0)
             + (IF ongoal THEN sokmove_ongoal ELSE 0)
             + (IF chk.ret # 0 THEN sokmove_solved ELSE 0)
  IN IF MoveRejected(g, dir, alreadysolved, stray)
     THEN [res |-> -1, game |-> g, states |-> st1, save |-> FALSE]
     ELSE [res |-> res, game |-> g2, states |-> st2, save |-> chk.save]

\* the switch of sok_undo on the last character of the history
UndoX(c) == CASE c \in {"r", "R"} -> -1 [] c \in {"l", "L"} -> 1 [] OTHER -> 0
UndoY(c) == CASE c \in {"u", "U"} -> 1 [] c \in {"d", "D"} -> -1 [] OTHER -> 0
UndoAngle(c, angle) ==
  CASE c \in {"u", "U"} -> 0 [] c \in {"r", "R"} -> 90
    [] c \in {"d", "D"} -> 180 [] c \in {"l", "L"} -> 270 [] OTHER -> angle

\* the atom of a push is left where the push put it
sok_undo_AtomStays(g, st) ==
  LET movescount == Len(st.history)
  IN IF movescount < 1 THEN [game |-> g, states |-> st]
     ELSE [game |-> [g EXCEPT !.positionx = g.positionx + UndoX(st.history[movescount]),
                              !.positiony = g.positiony + UndoY(st.history[movescount])],
           states |-> [history |-> SubSeq(st.history, 1, movescount - 1),
                       angle |-> UndoAngle(st.history[movescount], st.angle)]]

\* sok_undo(game, states): the game and the states it leaves
sok_undo(g, st) ==
  LET movescount == Len(st.history)
  IN IF movescount < 1 THEN [game |-> g, states |-> st]
     ELSE LET c == st.history[movescount]
              movex == UndoX(c)
              movey == UndoY(c)
              field1 == IF IsUpper(c)
                        THEN [g.field EXCEPT
                                ![g.positionx - movex][g.positiony - movey] = ClearFlag(@, field_atom),
                                ![g.positionx][g.positiony] = SetFlag(@, field_atom)]
                        ELSE g.field
          IN [game |-> [g EXCEPT !.field = field1,
                                 !.positionx = g.positionx + movex,
                                 !.positiony = g.positiony + movey],
              states |-> [history |-> SubSeq(st.history, 1, movescount - 1),
                          angle |-> UndoAngle(c, st.angle)]]

(***************************************************************************)
(* sok_core.c: the level parser.  A buffer is a sequence of characters; the *)
(* byte after its last one is the NUL that calloc left there.              *)
(***************************************************************************)
ERR_LEVEL_TOO_HIGH == -2
ERR_LEVEL_TOO_LARGE == -3
ERR_LEVEL_TOO_SMALL == -4
ERR_NO_LEVEL_DATA_FOUND == -6
ERR_PLAYER_POS_UNDEFINED == -9

LF == "\n"
CR == "\r"
EOFByte == "EOF"      \* the -1 of readbytefrommem
Digits == {"0", "1", "2", "3", "4", "5", "6", "7", "8", "9"}
DigitVal(c) ==
  CASE c = "0" -> 0 [] c = "1" -> 1 [] c = "2" -> 2 [] c = "3" -> 3 [] c = "4" -> 4
    [] c = "5" -> 5 [] c = "6" -> 6 [] c = "7" -> 7 [] c = "8" -> 8 [] c = "9" -> 9

\* readbytefrommem: the byte at ptr (-1 for the NUL), ptr moved by one
readbytefrommem(buf, ptr) ==
  [byte |-> IF ptr <= Len(buf) THEN buf[ptr] ELSE EOFByte, ptr |-> ptr + 1]

\* readRLEbyte: the repeat count (-1 at the end of the buffer), the data byte;
\* r holds rleprefix and ptr
RECURSIVE RLELoop(_, _)
RLELoop(buf, r) ==
  LET b == readbytefrommem(buf, r.ptr)
  IN IF b.byte = EOFByte THEN [rle |-> -1, byte |-> b.byte, ptr |-> b.ptr]
     ELSE IF b.byte \in Digits
     THEN Eval(LAMBDA t : RLELoop(buf, t),
               [rle |-> (IF r.rle > 0 THEN r.rle * 10 ELSE 0) + DigitVal(b.byte),
                ptr |-> b.ptr])
     ELSE [rle |-> IF r.rle < 0 THEN 1 ELSE r.rle, byte |-> b.byte, ptr |-> b.ptr]

readRLEbyte(buf, ptr) == RLELoop(buf, [rle |-> -1, ptr |-> ptr])

\* every cell without a wall is cleared, whatever else it carries
FloodStep_ClearsAllButWalls(m) ==
  IF m.stack = <<>> THEN m
  ELSE LET x == m.stack[1][1]
           y == m.stack[1][2]
           rest == m.stack[2]
       IN IF InGrid(x, y) /\ m.field[x][y] # 0 /\ ~HasFlag(m.field[x][y], field_wall)
          THEN [field |-> [m.field EXCEPT ![x][y] = 0],
                stack |-> << <<x + 1, y>>, << <<x - 1, y>>,
                             << <<x, y + 1>>, << <<x, y - 1>>, rest>> >> >> >>]
          ELSE [field |-> m.field, stack |-> rest]

\* floodFillField(game, x, y): the recursion run on an explicit stack of the
\* calls still to make, in the order the C code makes them (x+1, x-1, y+1, y-1);
\* a stack is <<>> or <<call, rest>>
FloodStep(m) ==
  IF m.stack = <<>> THEN m
  ELSE LET x == m.stack[1][1]
           y == m.stack[1][2]
           rest == m.stack[2]
       IN IF InGrid(x, y) /\ m.field[x][y] = field_floor
          THEN [field |-> [m.field EXCEPT ![x][y] = 0],
                stack |-> << <<x + 1, y>>, << <<x - 1, y>>,
                             << <<x, y + 1>>, << <<x, y - 1>>, rest>> >> >> >>]
          ELSE [field |-> m.field, stack |-> rest]

\* n calls of the recursion (halving keeps the evaluation shallow)
RECURSIVE FloodRun(_, _)
FloodRun(m, n) ==
  IF m.stack = <<>> \/ n = 0 THEN m
  ELSE IF n = 1 THEN FloodStep(m)
  ELSE Eval(LAMBDA h : FloodRun(h, n - (n \div 2)), FloodRun(m, n \div 2))

\* every cell is cleared at most once and makes four calls
floodFillField(field, x, y) ==
  Eval(LAMBDA m : FloodRun(m, 4 * FieldDim * FieldDim + 1),
       [field |-> field, stack |-> << <<x, y>>, <<>> >>]).field

\* the comment's text is not skipped
SkipComment_NoSkip(buf, r, n) == r

\* the comment loop (lines 241-253): bytes are dropped up to '\n' or the end
\* (up to n reads, none after the one that ends the line; r is the byte read
\* last and ptr)
RECURSIVE SkipComment(_, _, _)
SkipComment(buf, r, n) ==
  IF n = 0 \/ r.byte = LF \/ r.byte = EOFByte THEN r
  ELSE IF n = 1 THEN readbytefrommem(buf, r.ptr)
  ELSE Eval(LAMBDA h : SkipComment(buf, h, n - (n \div 2)),
            SkipComment(buf, r, n \div 2))

\* the switch on bytebuff (lines 199-269), p being the parser's locals and game
SwitchByte(p, buf) ==
  LET c == p.bytebuff
      x == p.x
      y == p.y
  IN CASE c \in {" ", "-", "_"} ->
            [p EXCEPT !.field[x + 1][y + 1] = SetFlag(@, field_floor), !.x = x + 1]
       [] c = "#" ->
            [p EXCEPT !.field[x + 1][y + 1] = SetFlag(@, field_wall), !.x = x + 1]
       [] c = "@" ->
            [p EXCEPT !.field[x + 1][y + 1] = SetFlag(@, field_floor),
                      !.positionx = x, !.positiony = y, !.x = x + 1]
       [] c = "*" ->
            [p EXCEPT !.field[x + 1][y + 1] = SetFlag(SetFlag(@, field_goal), field_atom),
                      !.x = x + 1]
       [] c = "$" ->
            [p EXCEPT !.field[x + 1][y + 1] = SetFlag(@, field_atom), !.x = x + 1]
       [] c = "+" ->
            [p EXCEPT !.field[x + 1][y + 1] = SetFlag(@, field_goal),
                      !.positionx = x, !.positiony = y, !.x = x + 1]
       [] c = "." ->
            [p EXCEPT !.field[x + 1][y + 1] = SetFlag(@, field_goal), !.x = x + 1]
       [] c \in {LF, "|"} ->
            [p EXCEPT !.y = IF p.leveldatastarted # 0 THEN y + 1 ELSE y, !.x = 0]
       [] c = CR -> p
       [] OTHER ->
            LET r == SkipComment(buf, [byte |-> c, ptr |-> p.ptr], Len(buf) + 1)
            IN [p EXCEPT !.ptr = r.ptr,
                         !.bytebuff = r.byte,
                         !.endoffile = IF r.byte = EOFByte THEN 1 ELSE p.endoffile,
                         !.leveldatastarted = IF p.leveldatastarted # 0 THEN -1 ELSE 0]

\* the width is not checked
AfterByte_NoWidthCheck(p) ==
  [p EXCEPT !.leveldatastarted = IF p.x > 0 THEN 1 ELSE @,
            !.err = IF p.y >= 62 THEN ERR_LEVEL_TOO_HIGH ELSE 0,
            !.field_width = IF p.y < 62 /\ p.x > @ THEN p.x ELSE @,
            !.field_height = IF p.y < 62 /\ p.y >= @ /\ p.x > 0 THEN p.y + 1 ELSE @]

\* the start of the level data is never noted
AfterByte_NeverStarted(p) ==
  [p EXCEPT !.err = IF p.x >= 62 THEN ERR_LEVEL_TOO_LARGE
                    ELSE IF p.y >= 62 THEN ERR_LEVEL_TOO_HIGH ELSE 0,
            !.field_width = IF p.x < 62 /\ p.y < 62 /\ p.x > @ THEN p.x ELSE @,
            !.field_height = IF p.x < 62 /\ p.y < 62 /\ p.y >= @ /\ p.x > 0
                             THEN p.y + 1 ELSE @]

\* lines 271-275, after a byte that did not end the block: the extents follow x, y
AfterByte(p) ==
  [p EXCEPT !.leveldatastarted = IF p.x > 0 THEN 1 ELSE @,
            !.err = IF p.x >= 62 THEN ERR_LEVEL_TOO_LARGE
                    ELSE IF p.y >= 62 THEN ERR_LEVEL_TOO_HIGH ELSE 0,
            !.field_width = IF p.x < 62 /\ p.y < 62 /\ p.x > @ THEN p.x ELSE @,
            !.field_height = IF p.x < 62 /\ p.y < 62 /\ p.y >= @ /\ p.x > 0
                             THEN p.y + 1 ELSE @]

\* the block ends: a comment after level data, the end of the buffer, an error
BlockEnds(p) == p.leveldatastarted < 0 \/ p.endoffile # 0 \/ p.err # 0

\* one round of the for (; rleprefix > 0; rleprefix--) loop (lines 198-276)
RunStep(p, buf) ==
  Eval(LAMBDA p1 : IF p1.leveldatastarted < 0 \/ p1.endoffile # 0 THEN p1
                   ELSE [AfterByte(p1) EXCEPT !.rleprefix = @ - 1],
       SwitchByte(p, buf))

\* up to n rounds of that loop, none once the count is used up or the block ends
RECURSIVE RunLoop(_, _, _)
RunLoop(p, buf, n) ==
  IF n = 0 \/ p.rleprefix <= 0 \/ BlockEnds(p) THEN p
  ELSE IF n = 1 THEN RunStep(p, buf)
  ELSE Eval(LAMBDA h : RunLoop(h, buf, n - (n \div 2)), RunLoop(p, buf, n \div 2))

\* one round of the outer for(;;) loop (lines 193-278): an RLE chunk is read
\* and its byte applied rleprefix times
ChunkStep(p, buf) ==
  Eval(LAMBDA r : IF r.rle < 0
                  THEN [p EXCEPT !.ptr = r.ptr, !.bytebuff = r.byte, !.endoffile = 1]
                  ELSE RunLoop([p EXCEPT !.ptr = r.ptr, !.bytebuff = r.byte,
                                         !.rleprefix = r.rle], buf, r.rle),
       readRLEbyte(buf, p.ptr))

\* up to n rounds of the outer loop, none once the block ends
RECURSIVE ParseLoop(_, _, _)
ParseLoop(p, buf, n) ==
  IF n = 0 \/ BlockEnds(p) THEN p
  ELSE IF n = 1 THEN ChunkStep(p, buf)
  ELSE Eval(LAMBDA h : ParseLoop(h, buf, n - (n \div 2)), ParseLoop(p, buf, n \div 2))

\* the parser's locals and the fields of game when the loop starts (lines 170-191)
ParseStart(ptr) ==
  [field |-> [x \in 0..(FieldDim - 1) |-> [y \in 0..(FieldDim - 1) |-> field_floor]],
   x |-> 0, y |-> 0, positionx |-> -1, positiony |-> -1,
   field_width |-> 0, field_height |-> 0,
   leveldatastarted |-> 0, endoffile |-> 0, ptr |-> ptr, bytebuff |-> EOFByte,
   rleprefix |-> 0, err |-> 0]

\* the field is left where the parser wrote it
ShiftField_NoShift(f) == f

\* the shift by (-1,-1) of lines 290-294; a cell is read before the loop reaches
\* and overwrites it, so every cell takes the old value of its neighbour
ShiftField(f) ==
  [x \in 0..(FieldDim - 1) |-> [y \in 0..(FieldDim - 1) |->
     IF x < FieldDim - 1 /\ y < FieldDim - 1 THEN f[x + 1][y + 1] ELSE f[x][y]]]

\* the rows are walked the way the CRC64 walks them
crc32_106_RowMajor(field, field_width, field_height) ==
  [k \in 1..(field_width * field_height) |->
     field[(k - 1) % field_width][(k - 1) \div field_width]]

\* the bytes fed to crc32_feed (lines 300-306), in the order fed: the outer
\* index y runs below field_width, the inner index x below field_height.  A
\* CRC is modelled by the bytes it is computed from.
crc32_106(field, field_width, field_height) ==
  [k \in 1..(field_width * field_height) |->
     field[(k - 1) % field_height][(k - 1) \div field_height]]

\* the bytes fed to crc64 (lines 309-339), in the order fed: the player's
\* position as two unsigned chars, then the rows of the level's box
crc64(field, positionx, positiony, field_width, field_height) ==
  <<positionx % 256, positiony % 256>>
    \o [k \in 1..(field_width * field_height) |->
          field[(k - 1) % field_width][(k - 1) \div field_width]]

\* lines 280-344: the sanity checks, the flood fill from (63,63), the shift, the
\* two CRCs and the value returned, p being the parser's state when its loop ends
LevelResult(p) ==
  LET ret == IF p.err # 0 THEN p.err
             ELSE IF p.positionx < 0 THEN ERR_PLAYER_POS_UNDEFINED
             ELSE IF p.field_height < 1 THEN ERR_LEVEL_TOO_SMALL
             ELSE IF p.field_width < 1 THEN ERR_LEVEL_TOO_SMALL
             ELSE IF p.leveldatastarted = 0 THEN ERR_NO_LEVEL_DATA_FOUND
             ELSE IF p.endoffile # 0 THEN 1
             ELSE 0
      field == IF ret < 0 THEN p.field
               ELSE Eval(ShiftField, floodFillField(p.field, FieldDim - 1, FieldDim - 1))
  IN [ret |-> ret,
      ptr |-> p.ptr,
      game |-> [field |-> field,
                positionx |-> p.positionx,
                positiony |-> p.positiony,
                field_width |-> p.field_width,
                field_height |-> p.field_height,
                solution |-> NULL,
                crc32_106 |-> IF ret < 0 THEN <<>>
                              ELSE crc32_106(field, p.field_width, p.field_height),
                crc64 |-> IF ret < 0 THEN <<>>
                          ELSE crc64(field, p.positionx, p.positiony,
                                     p.field_width, p.field_height)]]

\* loadlevelfromfile(game, &memptr, ...): the value returned (0, 1 at the end of
\* the buffer, or an error), the game filled in, and memptr on return
\* (every round but the last reads at least one byte of the buffer)
loadlevelfromfile(buf, ptr) ==
  Eval(LevelResult, ParseLoop(ParseStart(ptr), buf, Len(buf) + 1))

(***************************************************************************)
(* sok_core.c: sok_loadfile.  The buffer is taken as handed over in memory *)
(* and not gzipped; no solution file exists for the levels it holds.       *)
(***************************************************************************)
ERR_TOO_MANY_LEVELS_IN_SET == -7
ERR_UNABLE_TO_OPEN_FILE == -8

\* no file loaded yet
NoLevelSet == [maxlevels |-> 0, levelscount |-> 0, gamelist |-> <<>>]

\* a failing block empties the list: the error is returned whatever came before
LoadFileStep_ErrorDropsAll(s, buf, maxlevels) ==
  LET r == loadlevelfromfile(buf, s.ptr)
  IN IF r.ret < 0
     THEN [s EXCEPT !.errflag = r.ret, !.ptr = r.ptr, !.done = TRUE]
     ELSE IF s.level >= maxlevels
     THEN [s EXCEPT !.errflag = ERR_TOO_MANY_LEVELS_IN_SET, !.ptr = r.ptr, !.done = TRUE]
     ELSE [level |-> s.level + 1,
           errflag |-> r.ret,
           ptr |-> r.ptr,
           gamelist |-> Append(s.gamelist,
                               [game |-> r.game, level |-> s.level + 1, freed |-> FALSE]),
           done |-> r.ret # 0]

\* one round of the for (level = 0; !errflag; level++) loop (lines 402-426);
\* an entry of gamelist is a game, its level number, and whether it was freed
LoadFileStep(s, buf, maxlevels) ==
  LET r == loadlevelfromfile(buf, s.ptr)
  IN IF r.ret < 0
     THEN [s EXCEPT !.errflag = IF s.level # 0 THEN 0 ELSE r.ret,
                    !.ptr = r.ptr, !.done = TRUE]
     ELSE IF s.level >= maxlevels
     THEN [s EXCEPT !.errflag = ERR_TOO_MANY_LEVELS_IN_SET, !.ptr = r.ptr, !.done = TRUE]
     ELSE [level |-> s.level + 1,
           errflag |-> r.ret,
           ptr |-> r.ptr,
           gamelist |-> Append(s.gamelist,
                               [game |-> r.game, level |-> s.level + 1, freed |-> FALSE]),
           done |-> r.ret # 0]

\* up to n rounds of that loop, none after the one that leaves it
RECURSIVE LoadFileLoop(_, _, _, _)
LoadFileLoop(s, buf, maxlevels, n) ==
  IF n = 0 \/ s.done THEN s
  ELSE IF n = 1 THEN LoadFileStep(s, buf, maxlevels)
  ELSE Eval(LAMBDA h : LoadFileLoop(h, buf, maxlevels, n - (n \div 2)),
            LoadFileLoop(s, buf, maxlevels, n \div 2))

\* nothing is freed
sok_freefile_KeepsAll(gamelist, gamescount) == gamelist

\* sok_freefile(gamelist, gamescount): the games are freed, the pointers stay
sok_freefile(gamelist, gamescount) ==
  [i \in DOMAIN gamelist |->
     IF i <= gamescount THEN [gamelist[i] EXCEPT !.freed = TRUE] ELSE gamelist[i]]

\* sok_loadfile(gamelist, maxlevels, NULL, memptr, filelen, ...): the value
\* returned and the list as it leaves it (at most maxlevels + 1 rounds: the
\* round after the list is full ends the loop)
sok_loadfile(buf, maxlevels) ==
  IF Len(buf) = 0 THEN [ret |-> ERR_UNABLE_TO_OPEN_FILE, gamelist |-> <<>>]
  ELSE LET s == Eval(LAMBDA s0 : LoadFileLoop(s0, buf, maxlevels, maxlevels + 1),
                     [level |-> 0, errflag |-> 0, ptr |-> 1, gamelist |-> <<>>,
                      done |-> FALSE])
       IN IF s.errflag < 0
          THEN [ret |-> s.errflag, gamelist |-> sok_freefile(s.gamelist, s.level)]
          ELSE [ret |-> s.level, gamelist |-> s.gamelist]

(***************************************************************************)
(* The levels played and the solution files found on disk.                 *)
(***************************************************************************)
\* an enclosed corridor, the goal two cells beyond the atom, a free cell behind it
LevelCorridor ==
  <<"#", "#", "#", "#", "#", "#", "#", LF, "#", "@", "$", " ", ".", " ",
    "#", LF, "#", "#", "#", "#", "#", "#", "#", LF>>

\* the single row "@$." with no walls and no newline
LevelRow ==
  <<"@", "$", ".">>

\* a level no wall encloses, the player in column 0 of row 1, after a comment
LevelOpen ==
  <<";", " ", "o", "p", "e", "n", LF, "#", LF, "@", " ", "$", " ", " ", " ", ".", LF>>

\* run-length counts and '|' rows; its only goal holds an atom from the start
LevelFilled ==
  <<"5", "#", "|", "#", "@", "*", "-", "#", "|", "5", "#">>

LevelTexts == <<LevelCorridor, LevelRow, LevelOpen, LevelFilled>>

\* the levels as the parser hands them over (gameslist)
gameslist == [i \in DOMAIN LevelTexts |-> loadlevelfromfile(LevelTexts[i], 1).game]

\* <crc64>.sol as a session may find it: missing, empty, or holding "RR",
\* "RRR", "ddR" or "RRRRR"
SolFiles == {NoFile, File(<<>>), File(<<39>>), File(<<55>>), File(<<34, 23>>), File(<<87>>)}

\* sok_resetstates
NewStates == [history |-> <<>>, angle |-> 0]

Directions == {sokmoveUP, sokmoveLEFT, sokmoveDOWN, sokmoveRIGHT}

(***************************************************************************)
(* Spec: one level is loaded with the solution its file holds, then moves  *)
(* (dry-run or committed), undos and restarts follow in any order.         *)
(***************************************************************************)
Init ==
  /\ curlevel \in DOMAIN LevelTexts
  /\ solfile \in IF curlevel = 1 THEN SolFiles ELSE {NoFile}
  /\ game = [gameslist[curlevel] EXCEPT !.solution = solution_load(solfile)]
  /\ states = NewStates
  /\ op = [name |-> "load", dir |-> sokmoveNONE, dry |-> 0, res |-> 0, save |-> FALSE]
  /\ xsblevelptr = <<>>
  /\ levelset = NoLevelSet
  /\ scan = NoScan

\* sok_move(&game, dir, validitycheck, states)
SokMove(dir, validitycheck) ==
  /\ validitycheck = 0 => Len(states.history) < MaxHist
  /\ \E stray \in StrayReads(game, dir) :
       \E r \in {sok_move(game, dir, validitycheck, states, stray)} :
          /\ game' = r.game
          /\ states' = r.states
          /\ solfile' = IF r.save THEN File(solution_save(r.states.history)) ELSE solfile
          /\ op' = [name |-> "move", dir |-> dir, dry |-> validitycheck,
                    res |-> r.res, save |-> r.save]
  /\ UNCHANGED <<curlevel, xsblevelptr, levelset, scan>>

\* sok_undo(&game, states)
SokUndo ==
  \E r \in {sok_undo(game, states)} :
     /\ game' = r.game
     /\ states' = r.states
     /\ op' = [name |-> "undo", dir |-> sokmoveNONE, dry |-> 0, res |-> 0, save |-> FALSE]
     /\ UNCHANGED <<curlevel, solfile, xsblevelptr, levelset, scan>>

\* loadlevel(&game, gameslist[curlevel], states): the level is copied anew and
\* the states are reset; the copy carries the solution pointer of the list
LoadLevel ==
  /\ game' = [gameslist[curlevel] EXCEPT !.solution = game.solution]
  /\ states' = NewStates
  /\ op' = [name |-> "load", dir |-> sokmoveNONE, dry |-> 0, res |-> 0, save |-> FALSE]
  /\ UNCHANGED <<curlevel, solfile, xsblevelptr, levelset, scan>>

Next ==
  \/ \E dir \in Directions, validitycheck \in {0, 1} : SokMove(dir, validitycheck)
  \/ SokUndo
  \/ LoadLevel

Spec == Init /\ [][Next]_vars

(***************************************************************************)
(* PlaySpec: Spec with the replay of the history (F5 then F7 in main): the  *)
(* history is saved, loaded back, the level is loaded anew and sok_play     *)
(* makes the moves of the string read.                                      *)
(***************************************************************************)
\* the switch of sok_play on a character of playfile (lines 612-631)
PlayMove(c) ==
  CASE c \in {"u", "U"} -> sokmoveUP
    [] c \in {"r", "R"} -> sokmoveRIGHT
    [] c \in {"d", "D"} -> sokmoveDOWN
    [] OTHER -> sokmoveLEFT

\* one iteration of the loop of sok_play on each outcome reached so far: a
\* committed sok_move whose result is ignored; the file is written when it saves
PlayStep(outcomes, c) ==
  UNION {{[game |-> r.game, states |-> r.states,
           solfile |-> IF r.save THEN File(solution_save(r.states.history))
                       ELSE o.solfile]
            : r \in {sok_move(o.game, PlayMove(c), 0, o.states, stray)
                       : stray \in StrayReads(o.game, PlayMove(c))}}
         : o \in outcomes}

\* sok_play(game, states, playfile): what the first n characters can lead to
RECURSIVE PlayLoop(_, _, _)
PlayLoop(outcomes, playfile, n) ==
  IF n = 0 THEN outcomes
  ELSE Eval(LAMBDA prev : PlayStep(prev, playfile[n]), PlayLoop(outcomes, playfile, n - 1))

sok_play(g, st, file, playfile) ==
  PlayLoop({[game |-> g, states |-> st, solfile |-> file]}, playfile, Len(playfile))

\* simplesok.c 2002-2021: the history is saved as "sav" and loaded back; if a
\* string comes back the level is loaded anew and the string is played
SokPlay ==
  /\ Len(states.history) <= MaxHist
  /\ \E loadsol \in {solution_load(File(solution_save(states.history)))} :
        IF loadsol.null
        THEN UNCHANGED <<game, states, solfile>>
        ELSE \E o \in sok_play([gameslist[curlevel] EXCEPT !.solution = game.solution],
                               NewStates, solfile, loadsol.str) :
                /\ game' = o.game
                /\ states' = o.states
                /\ solfile' = o.solfile
  /\ op' = [name |-> "play", dir |-> sokmoveNONE, dry |-> 0, res |-> 0, save |-> FALSE]
  /\ UNCHANGED <<curlevel, xsblevelptr, levelset, scan>>

PlayNext == Next \/ SokPlay

PlaySpec == Init /\ [][PlayNext]_vars

(***************************************************************************)
(* CodecSpec: the history codec on its own.  A session starts either with  *)
(* a history to save and no file, or with a file found on disk; F5 saves   *)
(* the history (simplesok.c line 2004) and the file is loaded back the way *)
(* F7 (line 2010) and sok_loadsolutions (sok_core.c line 443) do.          *)
(***************************************************************************)
Alphabet == {"u", "l", "d", "r", "U", "L", "D", "R"}

\* run lengths around the 15 a chunk can hold
RunLens == {1, 15, 16, 31}

Run(c, n) == [i \in 1..n |-> c]

\* the histories made of at most k runs
RECURSIVE HistoriesOf(_)
HistoriesOf(k) ==
  IF k = 0 THEN {<<>>}
  ELSE LET prev == HistoriesOf(k - 1)
       IN prev \cup {h \o Run(c, n) : h \in prev, c \in Alphabet, n \in RunLens}

ExampleHistory == <<"u", "u", "u", "u", "U", "U", "U", "U", "r", "r", "r">>

Histories == HistoriesOf(MaxRuns) \cup {ExampleHistory}

\* bytes of a file found on disk: run-length nibble * 16 + code nibble
FileBytes == {n * 16 + c : n \in {0, 1, 2, 15}, c \in {0, 3, 7, 8, 15}}

RECURSIVE FilesOf(_)
FilesOf(k) ==
  IF k = 0 THEN {<<>>}
  ELSE LET prev == FilesOf(k - 1)
       IN prev \cup {Append(f, b) : f \in prev, b \in FileBytes}

FoundFiles == {File(b) : b \in FilesOf(MaxFileLen)}

CodecInit ==
  /\ curlevel = 1
  /\ game = gameslist[1]
  /\ op = [name |-> "load", dir |-> sokmoveNONE, dry |-> 0, res |-> 0, save |-> FALSE]
  /\ xsblevelptr = <<>>
  /\ levelset = NoLevelSet
  /\ scan = NoScan
  /\ \/ /\ solfile = NoFile
        /\ \E h \in Histories : states = [history |-> h, angle |-> 0]
     \/ /\ solfile \in FoundFiles
        /\ states = NewStates

\* solution_save(game.crc64, states->history, "sav")
SaveHistory ==
  /\ solfile' = File(solution_save(states.history))
  /\ op' = [name |-> "save", dir |-> sokmoveNONE, dry |-> 0, res |-> 0, save |-> TRUE]
  /\ UNCHANGED <<curlevel, game, states, xsblevelptr, levelset, scan>>

\* solution_load of the level's file; op.save then tells whether the file read
\* is one that solution_save wrote in this session
LoadSolution ==
  /\ game' = [game EXCEPT !.solution = solution_load(solfile)]
  /\ op' = [name |-> "loadsol", dir |-> sokmoveNONE, dry |-> 0, res |-> 0,
            save |-> op.save]
  /\ UNCHANGED <<curlevel, states, solfile, xsblevelptr, levelset, scan>>

CodecNext == SaveHistory \/ LoadSolution

CodecSpec == CodecInit /\ [][CodecNext]_vars

(***************************************************************************)
(* LoaderSpec: a level file is handed to sok_loadfile with a list of       *)
(* maxlevels places (simplesok.c line 1830), then one of the levels it     *)
(* returned is selected and loaded (line 1863).  A file is a run of blocks *)
(* that parse, each closed by a comment line, and a last block that parses *)
(* or not, closed by the end of the file.                                  *)
(***************************************************************************)
\* the comment line that closes a block
BlockEnd == <<";", " ", "n", "e", "x", "t", LF>>

\* blocks that parse: rows ended by newlines, rows ended by '|' and the comment
GoodBlocks == <<LevelCorridor, LevelFilled>>

\* a row of 63 columns written with a run-length count
LevelWideRLE == <<"#", "@", "6", "1", "-", "#", LF>>

\* a row of 63 columns written out
LevelWideLiteral == <<"#", "@">> \o Run("-", 60) \o <<"#", LF>>

\* 63 rows
LevelTooHigh == <<"@", "6", "2", "|", "#">>

\* no player
LevelNoPlayer == <<"#", "$", ".", "#", LF>>

\* what a file can end with: nothing more, a block that parses, one that does not
LastBlocks == {<<>>, LevelRow, LevelWideRLE, LevelWideLiteral, LevelTooHigh, LevelNoPlayer}

\* the files that start with at most k blocks that parse
RECURSIVE GoodRuns(_)
GoodRuns(k) ==
  IF k = 0 THEN {<<>>}
  ELSE LET prev == GoodRuns(k - 1)
       IN prev \cup {f \o GoodBlocks[i] \o BlockEnd : f \in prev, i \in DOMAIN GoodBlocks}

LevelFiles == {f \o b : f \in GoodRuns(MaxBlocks), b \in LastBlocks}

LoaderInit ==
  /\ xsblevelptr \in LevelFiles
  /\ levelset \in {[NoLevelSet EXCEPT !.maxlevels = m] : m \in 1..MaxBlocks}
  /\ scan = NoScan
  /\ curlevel = 0
  /\ game = gameslist[1]
  /\ states = NewStates
  /\ solfile = NoFile
  /\ op = [name |-> "start", dir |-> sokmoveNONE, dry |-> 0, res |-> 0, save |-> FALSE]

\* levelscount = sok_loadfile(gameslist, MAXLEVELS, NULL, xsblevelptr, ...)
LoadFile ==
  /\ op.name = "start"
  /\ \E r \in {sok_loadfile(xsblevelptr, levelset.maxlevels)} :
        /\ levelset' = [levelset EXCEPT !.levelscount = r.ret, !.gamelist = r.gamelist]
        /\ op' = [name |-> "loadfile", dir |-> sokmoveNONE, dry |-> 0, res |-> r.ret,
                  save |-> FALSE]
  /\ UNCHANGED <<curlevel, game, states, solfile, xsblevelptr, scan>>

\* a level of the list is selected and loadlevel(&game, gameslist[curlevel],
\* states) copies it; main goes on only with levelscount >= 1
SelectLevel(n) ==
  /\ op.name \in {"loadfile", "load"}
  /\ levelset.levelscount >= 1
  /\ n \in 1..levelset.levelscount
  /\ curlevel' = n
  /\ game' = levelset.gamelist[n].game
  /\ states' = NewStates
  /\ op' = [name |-> "load", dir |-> sokmoveNONE, dry |-> 0, res |-> 0, save |-> FALSE]
  /\ UNCHANGED <<solfile, xsblevelptr, levelset, scan>>

LoaderNext == LoadFile \/ \E n \in 1..(MaxBlocks + 1) : SelectLevel(n)

LoaderSpec == LoaderInit /\ [][LoaderNext]_vars

(***************************************************************************)
(* ParserSpec: loadlevelfromfile on one buffer.  A buffer is a level text, *)
(* with or without a newline after its last row, a comment line before it  *)
(* or none, and a comment after it or none.                                *)
(***************************************************************************)
\* the corridor, its last row ended by what follows
LevelCorridorOpenEnd == SubSeq(LevelCorridor, 1, Len(LevelCorridor) - 1)

\* lines ended by "\r\n", the player on a goal
LevelOnGoal ==
  <<"#", "#", "#", "#", "#", CR, LF, "#", "+", "$", " ", "#", CR, LF, "#", "#", "#", "#", "#">>

\* 62 rows, the last one ended by what follows
LevelTall62 == <<"@", "6", "1", "|", "#">>

\* a row of 61 columns
LevelWide61 == <<"@", "6", "0", "-">>

\* a row of 62 columns
LevelWide62 == <<"@", "6", "1", "-">>

\* no level text at all, and a blank line ended by "\r\n"
LevelEmpty == <<>>
LevelBlank == <<CR, LF>>

LevelBases ==
  {LevelRow, LevelFilled, LevelCorridorOpenEnd, LevelOnGoal, LevelTall62, LevelWide61,
   LevelWide62, LevelTooHigh, SubSeq(LevelNoPlayer, 1, Len(LevelNoPlayer) - 1),
   LevelEmpty, LevelBlank}

\* what follows the last row
RowEnds == {<<>>, <<LF>>}

\* comments ahead of the level: none, or a line that differs in text and blanks
PreComments == {<<>>, <<";", "a", LF>>, <<"T", " ", " ", "b", " ", LF>>}

\* comments after the level: none, a line, or one ended by the end of the buffer
PostComments == {<<>>, <<";", "a", LF>>, <<"c", " ", " ", "d">>}

ParserInit ==
  /\ \E pre \in PreComments, base \in LevelBases, rowend \in RowEnds, post \in PostComments :
        xsblevelptr = pre \o base \o rowend \o post
  /\ levelset = NoLevelSet
  /\ scan = NoScan
  /\ curlevel = 0
  /\ game = gameslist[1]
  /\ states = NewStates
  /\ solfile = NoFile
  /\ op = [name |-> "start", dir |-> sokmoveNONE, dry |-> 0, res |-> 0, save |-> FALSE]

\* loadlevelfromfile(game, &memptr, ...) on the buffer
ParseLevel ==
  /\ op.name = "start"
  /\ \E r \in {loadlevelfromfile(xsblevelptr, 1)} :
        /\ game' = r.game
        /\ op' = [name |-> "parse", dir |-> sokmoveNONE, dry |-> 0, res |-> r.ret,
                  save |-> FALSE]
  /\ UNCHANGED <<curlevel, states, solfile, xsblevelptr, levelset, scan>>

ParserNext == ParseLevel

ParserSpec == ParserInit /\ [][ParserNext]_vars

(***************************************************************************)
(* ScanSpec: loadlevelfromfile byte by byte.  An RLE chunk is read, its     *)
(* byte is applied as often as the chunk says, and when the block ends the  *)
(* checks, the flood fill and the shift make the level.                     *)
(***************************************************************************)
\* two blank lines ahead of the rows
LevelLeadingBlank == <<LF, CR, LF, "#", "@", "#", LF, "#", "$", ".", LF>>

\* a blank line between two rows, and one made of '|'
LevelMiddleBlank == <<"#", "@", "#", LF, LF, "#", "$", ".", LF>>
LevelMiddleBar == <<"#", "@", "2", "|", "$", ".", "#">>

\* a room whose floor the walls enclose, and floor outside the walls
LevelRoom ==
  <<"-", "#", "#", "#", "#", LF,
    "-", "#", "@", " ", "#", "-", LF,
    "-", "#", "$", ".", "#", LF,
    "-", "#", "#", "#", "#", LF>>

ScanBuffers ==
  {LevelCorridor, LevelRow, LevelOpen, LevelFilled, LevelOnGoal, LevelLeadingBlank,
   LevelMiddleBlank, LevelMiddleBar, LevelRoom, LevelNoPlayer}

ScanInit ==
  /\ xsblevelptr \in ScanBuffers
  /\ scan = ParseStart(1)
  /\ levelset = NoLevelSet
  /\ curlevel = 0
  /\ game = gameslist[1]
  /\ states = NewStates
  /\ solfile = NoFile
  /\ op = [name |-> "start", dir |-> sokmoveNONE, dry |-> 0, res |-> 0, save |-> FALSE]

\* rleprefix = readRLEbyte(memptr, &bytebuff) (lines 194-197)
ReadChunk ==
  /\ op.name # "level"
  /\ ~BlockEnds(scan)
  /\ scan.rleprefix <= 0
  /\ \E r \in {readRLEbyte(xsblevelptr, scan.ptr)} :
        scan' = IF r.rle < 0
                THEN [scan EXCEPT !.ptr = r.ptr, !.bytebuff = r.byte, !.endoffile = 1]
                ELSE [scan EXCEPT !.ptr = r.ptr, !.bytebuff = r.byte, !.rleprefix = r.rle]
  /\ op' = [name |-> "chunk", dir |-> sokmoveNONE, dry |-> 0, res |-> 0, save |-> FALSE]
  /\ UNCHANGED <<curlevel, game, states, solfile, xsblevelptr, levelset>>

\* one round of the inner loop: bytebuff is applied once (lines 198-276)
ApplyByte ==
  /\ op.name # "level"
  /\ ~BlockEnds(scan)
  /\ scan.rleprefix > 0
  /\ scan' = RunStep(scan, xsblevelptr)
  /\ op' = [name |-> "byte", dir |-> sokmoveNONE, dry |-> 0, res |-> 0, save |-> FALSE]
  /\ UNCHANGED <<curlevel, game, states, solfile, xsblevelptr, levelset>>

\* the loop has ended: the checks, the flood fill, the shift (lines 280-344)
FinishLevel ==
  /\ op.name # "level"
  /\ BlockEnds(scan)
  /\ \E r \in {LevelResult(scan)} :
        /\ game' = r.game
        /\ op' = [name |-> "level", dir |-> sokmoveNONE, dry |-> 0, res |-> r.ret,
                  save |-> FALSE]
  /\ UNCHANGED <<curlevel, states, solfile, xsblevelptr, levelset, scan>>

ScanNext == ReadChunk \/ ApplyByte \/ FinishLevel

ScanSpec == ScanInit /\ [][ScanNext]_vars

(***************************************************************************)
(* The properties checked.                                                 *)
(***************************************************************************)
\* the pushes of a history: its uppercase characters
Pushes(h) == Cardinality({i \in 1..Len(h) : h[i] \in {"U", "L", "D", "R"}})

\* every cell of the whole grid that carries the goal flag carries the atom flag
AllGoalsFilled(f) ==
  \A x \in 0..(FieldDim - 1), y \in 0..(FieldDim - 1) :
    HasFlag(f[x][y], field_goal) => HasFlag(f[x][y], field_atom)

\* the last call was a sok_move, committed or dry-run
Moved == op.name = "move"
Committed == op.name = "move" /\ op.dry = 0
Accepted == op.name = "move" /\ op.res >= 0
SolvedFlag == op.name = "move" /\ op.res >= 0 /\ HasFlag(op.res, sokmove_solved)

\* index of the first character of the maximal run that position i of h lies in
RunStart(h, i) == CHOOSE j \in 1..i :
  /\ \A k \in j..i : h[k] = h[i]
  /\ j = 1 \/ h[j - 1] # h[i]

\* the chunks of at most 15 that the maximal runs of h split into: ceil(L/15)
\* for each run of length L
ChunkCount(h) == Cardinality({i \in 1..Len(h) : (i - RunStart(h, i)) % 15 = 0})

\* C1: decoding with solution_load the bytes solution_save wrote for a history
\* over {u,l,d,r,U,L,D,R} yields exactly that history
C1_RoundTrip ==
  (op.name = "loadsol" /\ op.save) => game.solution = Ptr(states.history)

\* a history with a run of more than 15 has been saved and loaded back
C1_Witness ==
  /\ op.name = "loadsol" /\ op.save
  /\ Len(states.history) > 16
  /\ \A i \in 1..16 : states.history[i] = states.history[1]
  /\ states.history[Len(states.history)] # states.history[1]

\* C6: solution_save writes one byte per chunk, ceil(L/15) chunks for a maximal
\* run of length L, each byte a run length 1..15 in its high nibble and a code
\* 0..7 in its low one; "uuuuUUUUrrr" makes 3 bytes
C6_OneBytePerChunk ==
  op.save =>
    /\ solfile.exists
    /\ Len(solfile.bytes) = ChunkCount(states.history)
    /\ \A i \in 1..Len(solfile.bytes) :
         /\ solfile.bytes[i] \div 16 \in 1..15
         /\ solfile.bytes[i] % 16 \in 0..7
    /\ states.history = ExampleHistory => Len(solfile.bytes) = 3

\* a run of 31 was saved as three bytes
C6_Witness ==
  /\ op.name = "save"
  /\ Len(states.history) = 31
  /\ ChunkCount(states.history) = 3
  /\ Len(solfile.bytes) = 3

\* C7: solution_load returns NULL for a file that holds, anywhere, a byte whose
\* low nibble is above 7
C7_CorruptByteFails ==
  (op.name = "loadsol" /\ \E i \in 1..Len(solfile.bytes) : solfile.bytes[i] % 16 > 7)
    => game.solution = NULL

\* the cell a move in direction dir from the player's cell of g aims at
TargetX(g, dir) == g.positionx + VectorX(dir)
TargetY(g, dir) == g.positiony + VectorY(dir)
TargetHas(g, dir, flag) ==
  /\ InGrid(TargetX(g, dir), TargetY(g, dir))
  /\ HasFlag(g.field[TargetX(g, dir)][TargetY(g, dir)], flag)

\* the step is a call of sok_move that was not rejected and not a dry run
SuccessfulMove == op'.name = "move" /\ op'.dry = 0 /\ op'.res >= 0

\* one sok_undo takes the state after the move back to the one before it
MoveUndone ==
  SuccessfulMove =>
    \E u \in {sok_undo(game', states')} :
       /\ u.game.field = game.field
       /\ u.game.positionx = game.positionx
       /\ u.game.positiony = game.positiony
       /\ u.states.history = states.history
       /\ Len(u.states.history) = Len(states'.history) - 1

\* sok_undo called once per character of the history
RECURSIVE UndoAll(_)
UndoAll(r) ==
  IF Len(r.states.history) = 0 THEN r
  ELSE Eval(UndoAll, sok_undo(r.game, r.states))

\* as many undos as moves were made lead back to the level as it was loaded
UndoAllRestores ==
  \E u \in {UndoAll([game |-> game, states |-> states])} :
     /\ u.game.field = gameslist[curlevel].field
     /\ u.game.positionx = gameslist[curlevel].positionx
     /\ u.game.positiony = gameslist[curlevel].positiony
     /\ u.states.history = <<>>

\* C2: every successful committed sok_move is taken back by one sok_undo
\* (position and whole field as before the move, history one shorter), and as
\* many undos as moves restore the position, field and history of the start
C2_UndoWalksBack == [][MoveUndone]_vars /\ []UndoAllRestores

\* in the corridor a push and a second move were made and the second was
\* undone: the state is the one the push had left
C2_Witness ==
  /\ op.name = "undo"
  /\ curlevel = 1
  /\ states.history = <<"R">>
  /\ game.positionx = 2 /\ game.positiony = 1
  /\ HasFlag(game.field[3][1], field_atom)
  /\ ~HasFlag(game.field[2][1], field_atom)

\* the level parsed from "@$.": 3 by 1, player (0,0), atom (1,0), goal (2,0)
RowLevelParsed ==
  /\ gameslist[2].field_width = 3 /\ gameslist[2].field_height = 1
  /\ gameslist[2].positionx = 0 /\ gameslist[2].positiony = 0
  /\ HasFlag(gameslist[2].field[1][0], field_atom)
  /\ ~HasFlag(gameslist[2].field[1][0], field_goal)
  /\ HasFlag(gameslist[2].field[2][0], field_goal)
  /\ ~HasFlag(gameslist[2].field[2][0], field_atom)
  /\ \A x \in 0..(FieldDim - 1), y \in 0..(FieldDim - 1) :
       ~HasFlag(gameslist[2].field[x][y], field_wall)

\* a committed move to the right was just made in the level "@$."
RowLevelRightMove ==
  curlevel = 2 /\ op.name = "move" /\ op.dry = 0 /\ op.dir = sokmoveRIGHT

\* C3: "@$." parses to width 3, height 1, player (0,0), atom (1,0), goal (2,0),
\* and a committed move to the right from there is rejected, the player
\* standing in row 0: it returns -1, moves nothing and the history stays empty
C3_RowLevelMoveRejected ==
  /\ RowLevelParsed
  /\ RowLevelRightMove =>
       /\ op.res = -1
       /\ game.field = gameslist[2].field
       /\ game.positionx = 0 /\ game.positiony = 0
       /\ states.history = <<>>

C3_Witness == RowLevelRightMove /\ op.res = -1

\* C3 as stated: the committed move to the right pushes the atom onto the
\* goal, reports solved and leaves the history "R"
C3_RowLevelMoveSolves ==
  /\ RowLevelParsed
  /\ RowLevelRightMove =>
       /\ op.res >= 0
       /\ HasFlag(op.res, sokmove_pushed)
       /\ HasFlag(op.res, sokmove_solved)
       /\ HasFlag(game.field[2][0], field_atom)
       /\ states.history = <<"R">>

\* C4: sok_checksolution(game, states) reports solved exactly when every goal
\* cell holds an atom and the history has at least one push
C4_SolvedIffFilledAndPushed ==
  (sok_checksolution(game, states, FALSE).ret # 0)
    <=> (AllGoalsFilled(game.field) /\ Pushes(states.history) > 0)

\* no goal is unfilled, no push was made, and a move that went through the
\* check did not report solved
C4_Witness ==
  /\ Accepted
  /\ AllGoalsFilled(game.field)
  /\ Pushes(states.history) = 0
  /\ sok_checksolution(game, states, FALSE).ret = 0
  /\ ~HasFlag(op.res, sokmove_solved)

\* no best solution is stored: the level has none, or one of no moves
NoBestStored(solution) == solution.null \/ Len(solution.str) = 0

\* the ranking as C5 words it
StrictlyBetter(solution, history) ==
  \/ NoBestStored(solution)
  \/ Len(history) < Len(solution.str)
  \/ Len(history) = Len(solution.str) /\ Pushes(history) < Pushes(solution.str)

\* C5: a move that evaluates a solved state has the history saved exactly when
\* no best is stored, or the history has fewer moves, or as many moves and
\* fewer pushes; otherwise, and when the state is not solved, nothing is saved
C5_SavedIffBetter ==
  Moved =>
    /\ op.save <=> (SolvedFlag /\ StrictlyBetter(game.solution, states.history))
    /\ op.save => solfile = File(solution_save(states.history))

\* solved with as many moves as the stored best and no fewer pushes: not saved
C5_Witness ==
  /\ SolvedFlag
  /\ ~game.solution.null
  /\ Len(states.history) = Len(game.solution.str)
  /\ Pushes(states.history) >= Pushes(game.solution.str)
  /\ ~op.save

\* C8: a dry-run sok_move leaves the field, the position and the history as
\* they were and does not call solution_save
C8_DryRunCommitsNothing ==
  [][(op'.name = "move" /\ op'.dry = 1) =>
       /\ game' = game
       /\ states'.history = states.history
       /\ ~op'.save
       /\ solfile' = solfile]_vars

\* the step is a sok_move toward a cell of the grid that carries the wall flag
MoveIntoWall == op'.name = "move" /\ TargetHas(game, op'.dir, field_wall)

\* C9: a sok_move into a wall is rejected; field, position and history keep
\* their values and the facing angle becomes that of the direction asked for
C9_WallRejectTurnsOnly ==
  [][MoveIntoWall =>
       /\ op'.res = -1
       /\ game' = game
       /\ states'.history = states.history
       /\ states'.angle = MoveAngle(op'.dir)]_vars

\* a move into a wall of the grid was rejected and the player now faces the
\* wall, sideways or downward
C9_Witness ==
  /\ Moved /\ op.res = -1
  /\ game.positiony >= 1
  /\ TargetHas(game, op.dir, field_wall)
  /\ states.angle = MoveAngle(op.dir)
  /\ states.angle # 0

\* C9 as stated: the rejected move into a wall changes nothing, the facing
\* angle included
C9_WallRejectKeepsAll ==
  [][MoveIntoWall => op'.res = -1 /\ game' = game /\ states' = states]_vars

\* C10: where every goal holds an atom, a sok_move toward an atom is rejected
C10_NoPushOnceSolved ==
  [][(op'.name = "move" /\ AllGoalsFilled(game.field) /\ TargetHas(game, op'.dir, field_atom))
       => op'.res = -1]_vars

\* the blocks of buf parsed one after the other with loadlevelfromfile, up to
\* the first that fails or the end of the buffer: the games, whether a block
\* failed, and with what
RECURSIVE BlocksOf(_, _, _)
BlocksOf(buf, r, n) ==
  IF n = 0 \/ r.stop THEN r
  ELSE Eval(LAMBDA h : BlocksOf(buf, h, n - 1),
            CHOOSE h \in {LET one == loadlevelfromfile(buf, r.ptr)
                          IN IF one.ret < 0
                             THEN [r EXCEPT !.stop = TRUE, !.failed = TRUE, !.err = one.ret]
                             ELSE [r EXCEPT !.games = Append(@, one.game),
                                            !.ptr = one.ptr,
                                            !.stop = one.ret # 0]} : TRUE)

FileBlocks(buf) ==
  BlocksOf(buf, [games |-> <<>>, ptr |-> 1, stop |-> FALSE, failed |-> FALSE, err |-> 0],
           MaxBlocks + 2)

\* sok_loadfile has just been called
FileLoaded == op.name = "loadfile"

\* C11: a file holding more levels than maxlevels makes sok_loadfile return
\* TooManyLevelsInSet, and the maxlevels levels it had parsed are freed: the
\* caller is left with the error code alone
C11_OverflowFreesList ==
  \A ref \in {IF FileLoaded THEN FileBlocks(xsblevelptr) ELSE FileBlocks(<<>>)} :
    (FileLoaded /\ Len(ref.games) > levelset.maxlevels) =>
      /\ op.res = ERR_TOO_MANY_LEVELS_IN_SET
      /\ levelset.levelscount = ERR_TOO_MANY_LEVELS_IN_SET
      /\ Len(levelset.gamelist) = levelset.maxlevels
      /\ \A i \in DOMAIN levelset.gamelist : levelset.gamelist[i].freed

\* three levels were handed to a list of two places
C11_Witness ==
  /\ FileLoaded
  /\ levelset.maxlevels = 2
  /\ op.res = ERR_TOO_MANY_LEVELS_IN_SET
  /\ Len(levelset.gamelist) = 2
  /\ levelset.gamelist[2].freed

\* C11 as stated: the levels parsed before the overflow stay valid
C11_OverflowKeepsList ==
  \A ref \in {IF FileLoaded THEN FileBlocks(xsblevelptr) ELSE FileBlocks(<<>>)} :
    (FileLoaded /\ Len(ref.games) > levelset.maxlevels) =>
      /\ op.res = ERR_TOO_MANY_LEVELS_IN_SET
      /\ Len(levelset.gamelist) = levelset.maxlevels
      /\ \A i \in DOMAIN levelset.gamelist :
           /\ ~levelset.gamelist[i].freed
           /\ levelset.gamelist[i].game = ref.games[i]

\* C12: when block k >= 2 fails to parse (and the list has room for the k-1
\* before it), sok_loadfile returns k-1 and the list holds those levels, in
\* the order of the file and as parsed, numbered 1..k-1
C12_ErrorKeepsEarlierLevels ==
  \A ref \in {IF FileLoaded THEN FileBlocks(xsblevelptr) ELSE FileBlocks(<<>>)} :
    (/\ FileLoaded
     /\ ref.failed
     /\ Len(ref.games) >= 1
     /\ Len(ref.games) <= levelset.maxlevels) =>
      /\ op.res = Len(ref.games)
      /\ Len(levelset.gamelist) = Len(ref.games)
      /\ \A i \in DOMAIN levelset.gamelist :
           /\ levelset.gamelist[i].game = ref.games[i]
           /\ levelset.gamelist[i].level = i
           /\ ~levelset.gamelist[i].freed

\* the third block of a file was too high: two levels came back
C12_Witness ==
  /\ FileLoaded
  /\ \E f \in GoodRuns(MaxBlocks) : xsblevelptr = f \o LevelTooHigh
  /\ op.res = 2
  /\ levelset.gamelist[2].level = 2
  /\ levelset.gamelist[1].game # levelset.gamelist[2].game

\* the last block of the file has a row of 63 columns
WideFile ==
  \E f \in GoodRuns(MaxBlocks), b \in {LevelWideRLE, LevelWideLiteral} : xsblevelptr = f \o b

\* C13: a block with a row of more than 62 columns, written out or run-length
\* coded, makes loadlevelfromfile return LevelTooWide and adds no level to
\* the list
C13_TooWideAddsNoLevel ==
  \A ref \in {IF FileLoaded /\ WideFile THEN FileBlocks(xsblevelptr) ELSE FileBlocks(<<>>)} :
    (FileLoaded /\ WideFile) =>
      /\ ref.failed
      /\ ref.err = ERR_LEVEL_TOO_LARGE
      /\ Len(levelset.gamelist) <= Len(ref.games)
      /\ \A i \in DOMAIN levelset.gamelist : levelset.gamelist[i].game = ref.games[i]
      /\ \A i \in DOMAIN levelset.gamelist : levelset.gamelist[i].game.field_width < 62
      /\ Len(ref.games) = 0 => op.res = ERR_LEVEL_TOO_LARGE

\* a file whose second block is the row written out came back with one level
C13_Witness ==
  /\ FileLoaded
  /\ \E f \in GoodRuns(MaxBlocks) : xsblevelptr = f \o LevelWideLiteral
  /\ op.res = 1
  /\ Len(levelset.gamelist) = 1

\* loadlevelfromfile has run on the buffer
Parsed == op.name = "parse"

\* loadlevelfromfile has returned success
ParsedOk == Parsed /\ op.res >= 0

\* C14: every level the parser accepts has 1 <= width < 62, 1 <= height < 62
\* and a defined player start, whatever ends its last row.
C14_AcceptedLevelInBounds ==
  ParsedOk =>
    /\ 1 <= game.field_width /\ game.field_width < 62
    /\ 1 <= game.field_height /\ game.field_height < 62
    /\ game.positionx >= 0 /\ game.positiony >= 0

\* the cells of the 64x64 field outside the level's box
OutsideBox(g) ==
  {c \in (0..(FieldDim - 1)) \X (0..(FieldDim - 1)) :
     c[1] >= g.field_width \/ c[2] >= g.field_height}

\* C15: after the flood fill and the shift, every cell (x,y) of an accepted
\* level with x >= width or y >= height has value 0.
C15_OutsideBoxCleared ==
  ParsedOk => \A c \in OutsideBox(game) : game.field[c[1]][c[2]] = 0

\* an accepted level with floor and walls inside its box and cells outside it
C15_Witness ==
  /\ ParsedOk
  /\ game.field_width = 7 /\ game.field_height = 3
  /\ \E x \in 0..6, y \in 0..2 : HasFlag(game.field[x][y], field_floor)
  /\ \A c \in OutsideBox(game) : game.field[c[1]][c[2]] = 0

\* the cells of the box [0,width) x [0,height), row after row
RowMajorCells(g) ==
  [k \in 1..(g.field_width * g.field_height) |->
     g.field[(k - 1) % g.field_width][(k - 1) \div g.field_width]]

\* the ways the buffer is a level text with comments around it
Decorations ==
  {d \in PreComments \X LevelBases \X RowEnds \X PostComments :
     xsblevelptr = d[1] \o d[2] \o d[3] \o d[4]}

\* the buffer carries a comment
Commented == \E d \in Decorations : d[1] # <<>> \/ d[4] # <<>>

\* C16: a buffer and the same level text without its comments are accepted
\* alike and feed the same bytes to the 64-bit CRC: the player's x and y, then
\* the cells of [0,width) x [0,height) in row-major order.
C16_HashIgnoresComments ==
  Parsed =>
    \A d \in Decorations :
      \A plain \in {loadlevelfromfile(d[2] \o d[3], 1)} :
        /\ (plain.ret >= 0) <=> (op.res >= 0)
        /\ op.res >= 0 =>
             /\ game.crc64 = plain.game.crc64
             /\ game.crc64 = <<game.positionx, game.positiony>> \o RowMajorCells(game)

\* an accepted level with a comment ahead of it and one after it
C16_Witness ==
  /\ ParsedOk
  /\ \E d \in Decorations : d[1] # <<>> /\ d[4] # <<>>
  /\ Len(game.crc64) = 2 + 7 * 3

\* the field of the buffer after the flood fill, before the shift
PreShiftField ==
  floodFillField(ParseLoop(ParseStart(1), xsblevelptr, Len(xsblevelptr) + 1).field,
                 FieldDim - 1, FieldDim - 1)

\* the cells f[x][y], the outer index y below width, the inner index x below height
SwappedCells(f, width, height) ==
  [k \in 1..(width * height) |-> f[(k - 1) % height][(k - 1) \div height]]

\* C17: the legacy 32-bit hash of an accepted level is fed one byte per cell
\* field[x][y] of the grid as it stands after the (-1,-1) shift, the outer
\* index y below width and the inner index x below height, and the player's
\* position is not fed.
C17_LegacyHashAfterShift ==
  ParsedOk =>
    game.crc32_106 = SwappedCells(game.field, game.field_width, game.field_height)

\* an accepted level, wider than high, whose legacy hash bytes are not those of
\* its rows
C17_Witness ==
  /\ ParsedOk
  /\ game.field_width = 7 /\ game.field_height = 3
  /\ game.crc32_106 # RowMajorCells(game)
  /\ Len(game.crc32_106) = 21

\* C17 as stated: the legacy hash is fed the cells of the grid as it stands
\* before the shift.
C17_LegacyHashBeforeShift ==
  ParsedOk =>
    \A f \in {PreShiftField} :
      game.crc32_106 = SwappedCells(f, game.field_width, game.field_height)

\* the step is a committed sok_move that follows a dry run in the same
\* direction, as in the main loop
CommitAfterDryRun ==
  /\ op.name = "move" /\ op.dry = 1
  /\ op'.name = "move" /\ op'.dry = 0 /\ op'.dir = op.dir

\* the pushed and on_goal bits of an outcome
PushFlags(res) == res % sokmove_solved

\* C18: where the cell ahead lies in the grid, a dry-run sok_move and the
\* committed sok_move that follows it in the same direction are rejected
\* alike, and when accepted carry the same pushed and on_goal flags.
C18_DryRunSamePushFlags ==
  [][(CommitAfterDryRun /\ InGrid(TargetX(game, op.dir), TargetY(game, op.dir))) =>
       /\ (op.res < 0) <=> (op'.res < 0)
       /\ op.res >= 0 => PushFlags(op.res) = PushFlags(op'.res)]_vars

\* a committed push onto a goal has followed its dry run
C18_Witness ==
  /\ Committed /\ op.res >= 0
  /\ HasFlag(op.res, sokmove_pushed) /\ HasFlag(op.res, sokmove_ongoal)
  /\ states.history = <<"R", "R">>

\* C18 as stated: the dry run and the committed move that follows it return
\* the same outcome, the solved flag included.
C18_DryRunSameOutcome ==
  [][(CommitAfterDryRun /\ InGrid(TargetX(game, op.dir), TargetY(game, op.dir))) =>
       op'.res = op.res]_vars

\* the level counts as solved: no goal without an atom and a push made
LevelSolved(g, st) == AllGoalsFilled(g.field) /\ Pushes(st.history) > 0

\* C19: a committed sok_move carries the solved flag only if the level was not
\* solved before it and is solved after it.
C19_SolvedFlagOnlyWhenNewlySolved ==
  [][(SuccessfulMove /\ HasFlag(op'.res, sokmove_solved)) =>
       /\ ~LevelSolved(game, states)
       /\ LevelSolved(game', states')]_vars

\* the cell two steps ahead lies in the grid and carries neither wall nor atom
BeyondFree(g, dir) ==
  LET bx == g.positionx + 2 * VectorX(dir)
      by == g.positiony + 2 * VectorY(dir)
  IN /\ InGrid(bx, by)
     /\ ~HasFlag(g.field[bx][by], field_wall)
     /\ ~HasFlag(g.field[bx][by], field_atom)

\* the step is a sok_move toward a cell of the grid that holds an atom
MoveTowardAtom == op'.name = "move" /\ TargetHas(game, op'.dir, field_atom)

\* C20: a sok_move toward an atom is accepted, as a push, only if the cell
\* beyond the atom lies in the grid and carries neither wall nor atom; if it
\* does not, the move is rejected and field, position and history are unchanged.
C20_PushNeedsFreeCellBeyond ==
  [][MoveTowardAtom =>
       /\ op'.res >= 0 => (BeyondFree(game, op'.dir) /\ HasFlag(op'.res, sokmove_pushed))
       /\ ~BeyondFree(game, op'.dir) =>
            /\ op'.res = -1
            /\ game' = game
            /\ states'.history = states.history]_vars

\* a push against a wall was rejected after three pushes were accepted
C20_Witness ==
  /\ Moved /\ op.res = -1
  /\ game.positiony >= 1
  /\ TargetHas(game, op.dir, field_atom)
  /\ ~BeyondFree(game, op.dir)
  /\ states.history = <<"R", "R", "R">>

\* the characters a history may hold
MoveLetters == {"u", "l", "d", "r", "U", "L", "D", "R"}

\* the letter of a direction, in the case that tells a push from a walk
MoveLetter(dir, pushed) ==
  CASE dir = sokmoveUP -> IF pushed THEN "U" ELSE "u"
    [] dir = sokmoveLEFT -> IF pushed THEN "L" ELSE "l"
    [] dir = sokmoveDOWN -> IF pushed THEN "D" ELSE "d"
    [] dir = sokmoveRIGHT -> IF pushed THEN "R" ELSE "r"

\* h is what is left of g once characters are taken from its end
IsPrefix(h, g) == Len(h) <= Len(g) /\ h = SubSeq(g, 1, Len(h))

\* what a step does to the history
HistoryStep ==
  IF op'.name = "move"
  THEN IF op'.dry = 0 /\ op'.res >= 0
       THEN states'.history =
              Append(states.history,
                     MoveLetter(op'.dir, TargetHas(game, op'.dir, field_atom)))
            /\ HasFlag(op'.res, sokmove_pushed) <=> TargetHas(game, op'.dir, field_atom)
       ELSE states'.history = states.history
  ELSE IF op'.name = "undo"
       THEN /\ IsPrefix(states'.history, states.history)
            /\ Len(states'.history) = IF Len(states.history) = 0 THEN 0
                                      ELSE Len(states.history) - 1
       ELSE states'.history = <<>>

\* C21: the history is a string over {u,l,d,r,U,L,D,R}; an accepted committed
\* sok_move appends one character, the letter of its direction, uppercase
\* exactly when an atom was pushed; a rejected or dry-run sok_move appends
\* none; sok_undo and a reset alone remove characters, from the end.
C21_HistoryAppendOnly ==
  [][HistoryStep]_vars /\ [](\A i \in 1..Len(states.history) : states.history[i] \in MoveLetters)

\* a walk has been appended after a push
C21_Witness ==
  /\ Committed /\ op.res >= 0 /\ op.dir = sokmoveLEFT
  /\ states.history = <<"R", "l">>

\* the step is a sok_move called while the player stands in row 0
MoveInRow0 == op'.name = "move" /\ game.positiony = 0

\* C22: a sok_move called while the player stands in row 0 is rejected for
\* every direction, with field, position and history unchanged; the player
\* leaves row 0 through sok_undo or a restart alone.
C22_Row0RejectsAll ==
  /\ [][MoveInRow0 =>
          /\ op'.res = -1
          /\ game' = game
          /\ states'.history = states.history]_vars
  /\ [][(game.positiony = 0 /\ game'.positiony # 0) => op'.name \in {"undo", "load"}]_vars

\* the player walked up into row 0 of the open level and a move sideways was
\* rejected there
C22_Witness ==
  /\ Moved /\ op.res = -1 /\ op.dir = sokmoveLEFT
  /\ game.positiony = 0
  /\ Len(states.history) = 2 /\ states.history[2] = "u"

\* the buffer holds comments, blank lines and carriage returns, and no cell
NoGridToken == \E d \in Decorations : d[2] \in {LevelEmpty, LevelBlank}

\* C23: a block from which no grid token was consumed makes the parser report
\* NoLevelDataFound.
C23_NoTokenNoLevelData ==
  (Parsed /\ NoGridToken) => op.res = ERR_NO_LEVEL_DATA_FOUND

\* the step applies an end-of-row token
EndOfRowStep == op'.name = "byte" /\ scan.bytebuff \in {LF, "|"}

\* C24: an end-of-row token resets x to 0 and advances y by one exactly when a
\* cell has been written in the block so far, in the current row or an earlier
\* one; ahead of the first cell it leaves y unchanged.
C24_RowEndAdvancesOnceStarted ==
  [][EndOfRowStep =>
       /\ scan'.x = 0
       /\ scan'.y = IF scan.field_width > 0 THEN scan.y + 1 ELSE scan.y]_vars

\* the blank line between two rows has advanced y, and the row after it lies
\* two rows below the first
C24_Witness ==
  /\ op.name = "level" /\ op.res >= 0
  /\ xsblevelptr = LevelMiddleBlank
  /\ game.field_height = 3
  /\ scan.y = 3

\* two blank lines ahead of the rows have left y at 0
C24_WitnessLeading ==
  /\ op.name = "byte"
  /\ xsblevelptr = LevelLeadingBlank
  /\ scan.ptr = 4 /\ scan.y = 0 /\ scan.x = 0

\* C24 as stated: an end-of-row token advances y only if a cell has been
\* written in the current row.
C24_RowEndAdvancesOnNonEmptyRow ==
  [][EndOfRowStep =>
       /\ scan'.x = 0
       /\ scan'.y = IF scan.x > 0 THEN scan.y + 1 ELSE scan.y]_vars

\* the cells next to c
Neighbours(c) ==
  {<<c[1] + 1, c[2]>>, <<c[1] - 1, c[2]>>, <<c[1], c[2] + 1>>, <<c[1], c[2] - 1>>}

\* the cells of f that hold the floor flag and no other
IsExactFloor(f, c) == InGrid(c[1], c[2]) /\ f[c[1]][c[2]] = field_floor

\* one more ring of exactly-floor cells around those reached so far
ReachStep(f, r) ==
  LET new == {c \in UNION {Neighbours(d) : d \in r.frontier} :
                IsExactFloor(f, c) /\ c \notin r.seen}
  IN [seen |-> r.seen \cup new, frontier |-> new]

RECURSIVE ReachLoop(_, _, _)
ReachLoop(f, r, n) ==
  IF n = 0 \/ r.frontier = {} THEN r
  ELSE IF n = 1 THEN ReachStep(f, r)
  ELSE Eval(LAMBDA h : ReachLoop(f, h, n - (n \div 2)), ReachLoop(f, r, n \div 2))

\* the exactly-floor cells of f that a 4-connected path of exactly-floor cells
\* links to (63,63)
Reach(f) ==
  LET corner == <<FieldDim - 1, FieldDim - 1>>
      start == IF IsExactFloor(f, corner) THEN {corner} ELSE {}
  IN ReachLoop(f, [seen |-> start, frontier |-> start], FieldDim * FieldDim).seen

\* the level has been made of the block scanned
LevelMade == op.name = "level" /\ op.res >= 0

\* C25: the flood fill started at (63,63) sets to 0 exactly the exactly-floor
\* cells linked to (63,63) by a 4-connected path of exactly-floor cells, and
\* every other cell keeps its value; the accepted level holds that grid moved
\* by (-1,-1).
C25_FloodClearsReachableFloor ==
  LevelMade =>
    \A reach \in {Reach(scan.field)},
       filled \in {floodFillField(scan.field, FieldDim - 1, FieldDim - 1)} :
      /\ \A x \in 0..(FieldDim - 1), y \in 0..(FieldDim - 1) :
           filled[x][y] = IF <<x, y>> \in reach THEN 0 ELSE scan.field[x][y]
      /\ \A x \in 0..(FieldDim - 2), y \in 0..(FieldDim - 2) :
           game.field[x][y] =
             IF <<x + 1, y + 1>> \in reach THEN 0 ELSE scan.field[x + 1][y + 1]

\* floor inside the walls of the room is kept, floor outside them is cleared
C25_Witness ==
  /\ LevelMade
  /\ xsblevelptr = LevelRoom
  /\ game.field[3][1] = field_floor
  /\ game.field[0][1] = 0 /\ game.field[5][1] = 0
  /\ scan.field[1][2] = field_floor /\ scan.field[6][2] = field_floor

\* the flag sets a cell may carry: none, floor, floor+wall, floor+goal,
\* floor+atom, floor+goal+atom
ValidCells ==
  {0, field_floor, field_floor + field_wall, field_floor + field_goal,
   field_floor + field_atom, field_floor + field_goal + field_atom}

\* C26: in every state reached from an accepted level by sok_move and sok_undo
\* every cell carries one of the valid flag sets.
C26_ValidCellFlags ==
  \A x \in 0..(FieldDim - 1), y \in 0..(FieldDim - 1) : game.field[x][y] \in ValidCells

\* the step is a sok_move that goes on to read the cell ahead of the player
MoveReadsTarget == op'.name = "move" /\ game.positiony >= 1

\* C27: every cell sok_move reads or writes has indices in 0..63, and the
\* player's position stays inside the 64x64 grid.
C27_IndicesInRange ==
  /\ [][MoveReadsTarget => InGrid(TargetX(game, op'.dir), TargetY(game, op'.dir))]_vars
  /\ [](InGrid(game.positionx, game.positiony))

\* the cells of f that carry the atom flag
AtomCells(f) ==
  {c \in (0..(FieldDim - 1)) \X (0..(FieldDim - 1)) : HasFlag(f[c[1]][c[2]], field_atom)}

\* the cells among the columns a step changed that carry the atom flag in f
\* and not in g
AtomsOnlyIn(f, g) ==
  {c \in {x \in 0..(FieldDim - 1) : game.field[x] # game'.field[x]} \X (0..(FieldDim - 1)) :
     HasFlag(f[c[1]][c[2]], field_atom) /\ ~HasFlag(g[c[1]][c[2]], field_atom)}

\* what a step does to the atoms: a push takes the atom from the cell ahead to
\* the cell beyond it, the undo of a push takes it back to the cell the player
\* stood on, every other step leaves the atoms where they are
AtomStep ==
  \A lost \in {AtomsOnlyIn(game.field, game'.field)},
     gained \in {AtomsOnlyIn(game'.field, game.field)} :
    IF op'.name = "move" /\ op'.dry = 0 /\ op'.res >= 0 /\ HasFlag(op'.res, sokmove_pushed)
    THEN /\ lost = {<<TargetX(game, op'.dir), TargetY(game, op'.dir)>>}
         /\ gained = {<<game.positionx + 2 * VectorX(op'.dir),
                        game.positiony + 2 * VectorY(op'.dir)>>}
    ELSE IF op'.name = "undo" /\ Len(states.history) > 0
                              /\ IsUpper(states.history[Len(states.history)])
    THEN /\ Cardinality(lost) = 1
         /\ gained = {<<game.positionx, game.positiony>>}
    ELSE IF op'.name \in {"move", "undo"}
    THEN lost = {} /\ gained = {}
    ELSE TRUE

\* C28: the number of cells that carry the atom flag is that of the level in
\* every reachable state; a push takes the atom from one cell and gives it to
\* one cell that had none, the undo of a push does the reverse, and no other
\* move or undo touches an atom.
C28_AtomCountConstant ==
  /\ [][AtomStep]_vars
  /\ [](Cardinality(AtomCells(game.field)) =
          Cardinality(AtomCells(gameslist[curlevel].field)))

\* a push has been undone after another push
C28_Witness ==
  /\ op.name = "undo"
  /\ states.history = <<"R">>
  /\ states.angle = 90
  /\ Cardinality(AtomCells(game.field)) = 1
  /\ HasFlag(game.field[3][1], field_atom)

\* the step is a sok_move that calls solution_save
MoveSaves == op'.name = "move" /\ op'.save

\* C29: a sok_move replaces the persisted best solution only by a history that
\* is strictly better than the one persisted just before (fewer moves, or as
\* many moves and fewer pushes), or when none is persisted.
C29_SavedOnlyWhenBetterThanPersisted ==
  [][MoveSaves =>
       \A persisted \in {solution_load(solfile)} :
         /\ StrictlyBetter(persisted, states'.history)
         /\ solfile' = File(solution_save(states'.history))]_vars

\* the step is a replay of the history
Replayed == op'.name = "play"

\* C30: loading the level anew and playing the history of a state with
\* sok_play gives back the field, the player's position and the history of
\* that state.
C30_ReplayFaithful ==
  [][Replayed =>
       /\ game'.field = game.field
       /\ game'.positionx = game.positionx
       /\ game'.positiony = game.positiony
       /\ states'.history = states.history]_vars

====
